---- MODULE Spec2Model ----
(***************************************************************************)
(* DynamicArgumentParser (bin/parsers.py): a callable's signature is       *)
(* classified into kind buckets, one argparse argument is declared per     *)
(* parameter, and parse_args turns the parsed command line back into the   *)
(* (args, kwargs) pair of an invocation.                                   *)
(*                                                                         *)
(* Values are strings: a raw command-line token is the token itself, the   *)
(* value argparse stores for a declared argument is Typecast(token), and   *)
(* Python's True, False and None are "True", "False" and "None".           *)
(***************************************************************************)
EXTENDS Naturals, Integers, Sequences, FiniteSets, TLC

VARIABLES sig, argv, pc, params_meta, arguments, cmd_args, positional_or_kw,
          args, kwargs, idx, reported

vars == <<sig, argv, pc, params_meta, arguments, cmd_args, positional_or_kw,
          args, kwargs, idx, reported>>

\* ------------------------------------------------------------------ bounds
MaxParams == 3
MaxArgv == 3

\* --------------------------------------------------------------- constants
POSITIONAL_ONLY == "POSITIONAL_ONLY"
POSITIONAL_OR_KEYWORD == "POSITIONAL_OR_KEYWORD"
KEYWORD_ONLY == "KEYWORD_ONLY"
REQUIRED == "REQUIRED"

\* the three calling conventions a ParameterSpec can have
Kinds == {POSITIONAL_ONLY, POSITIONAL_OR_KEYWORD, KEYWORD_ONLY}

\* inspect.Parameter kinds are ordered; a signature lists them ascending
KindRank(k) ==
  CASE k = POSITIONAL_ONLY -> 0
    [] k = POSITIONAL_OR_KEYWORD -> 1
    [] k = KEYWORD_ONLY -> 2

MetaKeys == Kinds \cup {REQUIRED}

CATCH_ALL == "_positional_or_kw"

\* ------------------------------------------------------------- signatures
\* the name of the i-th declared parameter
ParamNames == <<"a", "b", "c", "d", "e", "f">>

\* the i-th unnamed token of the command line
Tokens == <<"5", "6", "7", "8", "9", "10">>

\* the raw string given with the named option of a parameter
OptRaw(name) == "v" \o name

\* the value argparse stores for a declared non-boolean argument: the
\* parameter's typecast applied to the raw string
Typecast(raw) == "cast:" \o raw

\* one parameter of inspect.signature(fn).parameters: default is TRUE when
\* the parameter has a default, bool when its annotation is bool or its
\* default is a bool
ParamAttrs == [kind : Kinds, default : BOOLEAN, bool : BOOLEAN]

Param(i, a) ==
  [name |-> ParamNames[i], kind |-> a.kind, default |-> a.default, bool |-> a.bool]

\* what Python accepts as a signature: kinds ascending, and no positional
\* parameter without a default after one with a default
ValidSignature(s) ==
  \A i \in 1..Len(s) : \A j \in 1..Len(s) :
     i < j => /\ KindRank(s[i].kind) <= KindRank(s[j].kind)
              /\ (/\ s[i].kind \in {POSITIONAL_ONLY, POSITIONAL_OR_KEYWORD}
                  /\ s[j].kind \in {POSITIONAL_ONLY, POSITIONAL_OR_KEYWORD}
                  /\ s[i].default) => s[j].default

SignaturesOfLen(n) ==
  { [i \in 1..n |-> Param(i, s[i])] :
      s \in { t \in [1..n -> ParamAttrs] : ValidSignature(t) } }

Signatures == UNION { SignaturesOfLen(n) : n \in 0..MaxParams }

\* ------------------------------------------------------------ command line
\* The command line: npos unnamed tokens (Tokens[1..npos]) and, for every
\* parameter that gets a named option, how that option was given: "unset",
\* "value" (--name RAW), "yes" (--name) or "no" (--no-name).
OptionForms(p) ==
  IF p.kind = POSITIONAL_ONLY THEN {"unset"}
  ELSE IF p.bool THEN {"unset", "yes", "no"}
  ELSE {"unset", "value"}

SigNames(s) == { s[i].name : i \in 1..Len(s) }

ParamOf(s, name) == CHOOSE p \in { s[i] : i \in 1..Len(s) } : p.name = name

CommandLines(s) ==
  [npos : 0..MaxArgv,
   opts : { o \in [SigNames(s) -> {"unset", "value", "yes", "no"}] :
              \A n \in SigNames(s) : o[n] \in OptionForms(ParamOf(s, n)) }]

\* ------------------------------------------------------- sequence helpers
Range(s) == { s[i] : i \in 1..Len(s) }

EmptyMap == [n \in {} |-> "None"]

\* d[k] = v on a dict
Put(d, k, v) == [n \in DOMAIN d \cup {k} |-> IF n = k THEN v ELSE d[n]]

Min(a, b) == IF a < b THEN a ELSE b

\* ----------------------------------------------------------- classification
\* __init__, parsers.py:25-30: one pass over the parameters in declaration
\* order; params_meta is a defaultdict(list)
ClassifyInvertedDefault(s) ==
  [k \in MetaKeys |->
     IF k = REQUIRED THEN SelectSeq(s, LAMBDA p : p.default)
     ELSE SelectSeq(s, LAMBDA p : p.kind = k)]

Classify(s) ==
  [k \in MetaKeys |->
     IF k = REQUIRED THEN SelectSeq(s, LAMBDA p : ~p.default)
     ELSE SelectSeq(s, LAMBDA p : p.kind = k)]

\* ------------------------------------------------------------- generation
\* generate_arg_options, parsers.py:65-97: the action and the default of the
\* argument declared for a parameter (the help text and metavar are not
\* modelled: they do not reach the parsed values)
ArgOptionsAllSuppress(param) ==
  [action  |-> IF param.bool
               THEN (IF param.kind = POSITIONAL_ONLY THEN "store_true"
                     ELSE "BooleanOptionalAction")
               ELSE "store",
   default |-> "SUPPRESS"]

generate_arg_options(param) ==
  LET action == IF param.bool
                THEN (IF param.kind = POSITIONAL_ONLY THEN "store_true"
                      ELSE "BooleanOptionalAction")
                ELSE "store"
  IN [action  |-> action,
      default |-> IF action # "BooleanOptionalAction" THEN "SUPPRESS" ELSE "None"]

\* one add_argument call: dest, whether it is a positional, nargs, and the
\* options of generate_arg_options
Declare(param, positional) ==
  LET o == generate_arg_options(param)
  IN [dest |-> param.name, positional |-> positional, nargs |-> "",
      action |-> o.action, default |-> o.default]

DeclareAll(bucket, positional) ==
  [i \in 1..Len(bucket) |-> Declare(bucket[i], positional)]

\* generate_positional_only_args, parsers.py:43-48
generate_positional_only_args(meta) == DeclareAll(meta[POSITIONAL_ONLY], TRUE)

\* generate_positional_or_keyword_args, parsers.py:50-56: the catch-all
\* positional, then one option per parameter
generate_positional_or_keyword_args(meta) ==
  <<[dest |-> CATCH_ALL, positional |-> TRUE, nargs |-> "*",
     action |-> "store", default |-> "[]"]>>
  \o DeclareAll(meta[POSITIONAL_OR_KEYWORD], FALSE)

\* generate_keyword_only_args, parsers.py:58-63
generate_keyword_only_args(meta) == DeclareAll(meta[KEYWORD_ONLY], FALSE)

\* generate_args, parsers.py:33-41
generate_args(meta) ==
  (IF meta[POSITIONAL_ONLY] # <<>> THEN generate_positional_only_args(meta) ELSE <<>>)
  \o (IF meta[POSITIONAL_OR_KEYWORD] # <<>>
      THEN generate_positional_or_keyword_args(meta) ELSE <<>>)
  \o (IF meta[KEYWORD_ONLY] # <<>> THEN generate_keyword_only_args(meta) ELSE <<>>)

\* ------------------------------------------------- argparse's own parsing
\* The declared positionals that take exactly one token (nargs None)
SlotDecls(decls) ==
  SelectSeq(decls, LAMBDA d : d.positional /\ d.action = "store" /\ d.nargs = "")

HasCatchAll(decls) == \E i \in 1..Len(decls) : decls[i].dest = CATCH_ALL

\* the value argparse leaves in the namespace for one declaration, "ABSENT"
\* when it sets no attribute (default SUPPRESS and the argument not given).
\* A positional store_true has nargs 0: argparse matches it against no token
\* and runs the action on every command line, so its attribute is always True.
NamespaceValue(decls, i, line) ==
  LET d == decls[i]
      slot == Cardinality({ j \in 1..i : decls[j].positional
                                          /\ decls[j].action = "store"
                                          /\ decls[j].nargs = "" })
  IN IF d.positional
     THEN (IF d.action = "store_true" THEN "True" ELSE Typecast(Tokens[slot]))
     ELSE CASE line.opts[d.dest] = "value" -> Typecast(OptRaw(d.dest))
            [] line.opts[d.dest] = "yes" -> "True"
            [] line.opts[d.dest] = "no" -> "False"
            [] OTHER -> IF d.default = "SUPPRESS" THEN "ABSENT" ELSE d.default

\* vars(super().parse_args(argv)), parsers.py:100: the positionals take the
\* unnamed tokens in declaration order, the catch-all takes what is left, a
\* missing positional or a token nobody takes ends the program
SuperParseArgs(decls, line) ==
  LET slots == SlotDecls(decls)
      named == { i \in 1..Len(decls) : decls[i].dest # CATCH_ALL }
      present == { i \in named : NamespaceValue(decls, i, line) # "ABSENT" }
  IN IF line.npos < Len(slots)
     THEN [ok |-> FALSE,
           missing |-> [k \in 1..(Len(slots) - line.npos) |-> slots[line.npos + k].dest],
           cmd_args |-> EmptyMap, positional_or_kw |-> <<>>]
     ELSE IF line.npos > Len(slots) /\ ~HasCatchAll(decls)
     THEN [ok |-> FALSE, missing |-> <<>>,
           cmd_args |-> EmptyMap, positional_or_kw |-> <<>>]
     ELSE [ok |-> TRUE, missing |-> <<>>,
           cmd_args |-> [n \in { decls[i].dest : i \in present } |->
                           LET i == CHOOSE j \in present : decls[j].dest = n
                           IN NamespaceValue(decls, i, line)],
           positional_or_kw |->
              IF HasCatchAll(decls)
              THEN SubSeq(Tokens, Len(slots) + 1, line.npos) ELSE <<>>]

\* --------------------------------------------------------------- resolution
\* cmd_args['_positional_or_kw'].pop(0), parsers.py:111
PopLast(list) == [value |-> list[Len(list)], rest |-> SubSeq(list, 1, Len(list) - 1)]

Pop0(list) == [value |-> Head(list), rest |-> Tail(list)]

\* parsers.py:103-105: the positional list, one entry per positional-only
\* parameter in declaration order
PositionalOnlyReversed(bucket, cmd) ==
  [i \in 1..Len(bucket) |-> cmd[bucket[Len(bucket) + 1 - i].name]]

PositionalOnlyValues(bucket, cmd) ==
  [i \in 1..Len(bucket) |-> cmd[bucket[i].name]]

\* parsers.py:107-115: one iteration of the loop over the
\* positional-or-keyword parameters, on st = [cmd_args, positional_or_kw, kwargs]
BindPositionalOrKeywordPopFirst(st, param) ==
  IF st.positional_or_kw = <<>>
  THEN (IF param.name \in DOMAIN st.cmd_args
        THEN [st EXCEPT !.kwargs = Put(st.kwargs, param.name, st.cmd_args[param.name])]
        ELSE st)
  ELSE LET popped == Pop0(st.positional_or_kw)
           value == IF param.name \in DOMAIN st.cmd_args
                    THEN st.cmd_args[param.name] ELSE popped.value
       IN [cmd_args |-> Put(st.cmd_args, param.name, value),
           positional_or_kw |-> popped.rest,
           kwargs |-> Put(st.kwargs, param.name, value)]

BindPositionalOrKeyword(st, param) ==
  IF param.name \in DOMAIN st.cmd_args
  THEN [st EXCEPT !.kwargs = Put(st.kwargs, param.name, st.cmd_args[param.name])]
  ELSE IF st.positional_or_kw # <<>>
  THEN LET popped == Pop0(st.positional_or_kw)
       IN [cmd_args |-> Put(st.cmd_args, param.name, popped.value),
           positional_or_kw |-> popped.rest,
           kwargs |-> Put(st.kwargs, param.name, popped.value)]
  ELSE st

\* parsers.py:116-118: the loop over the keyword-only parameters
BindKeywordOnly(bucket, cmd, kw) ==
  [n \in DOMAIN kw \cup ({ bucket[i].name : i \in 1..Len(bucket) } \cap DOMAIN cmd) |->
     IF n \in DOMAIN kw THEN kw[n] ELSE cmd[n]]

\* parsers.py:120-122: self.error() exits at the first required parameter
\* that is not in cmd_args, so the message names that one parameter
NoneMissing(required, cmd) == <<>>

MissingRequiredSkipsKeywordOnly(required, cmd) ==
  LET missing == SelectSeq(required, LAMBDA p : p.name \notin DOMAIN cmd
                                               /\ p.kind # KEYWORD_ONLY)
  IN IF missing = <<>> THEN <<>> ELSE <<missing[1].name>>

MissingRequired(required, cmd) ==
  LET missing == SelectSeq(required, LAMBDA p : p.name \notin DOMAIN cmd)
  IN IF missing = <<>> THEN <<>> ELSE <<missing[1].name>>

\* parse_args, parsers.py:99-124, as one function of the signature and the
\* command line: the outcome and, when it gets that far, args and kwargs
RECURSIVE BindAllPositionalOrKeyword(_, _, _)
BindAllPositionalOrKeyword(st, bucket, i) ==
  IF i > Len(bucket) THEN st
  ELSE BindAllPositionalOrKeyword(BindPositionalOrKeyword(st, bucket[i]), bucket, i + 1)

parse_args(s, line) ==
  LET meta == Classify(s)
      r == SuperParseArgs(generate_args(meta), line)
      st == BindAllPositionalOrKeyword(
              [cmd_args |-> r.cmd_args, positional_or_kw |-> r.positional_or_kw,
               kwargs |-> EmptyMap],
              meta[POSITIONAL_OR_KEYWORD], 1)
      missing == MissingRequired(meta[REQUIRED], st.cmd_args)
  IN IF ~r.ok
     THEN [outcome |-> "parse_error", args |-> <<>>, kwargs |-> EmptyMap,
           reported |-> r.missing]
     ELSE IF \E i \in 1..Len(meta[POSITIONAL_ONLY]) :
               meta[POSITIONAL_ONLY][i].name \notin DOMAIN r.cmd_args
     THEN [outcome |-> "key_error", args |-> <<>>, kwargs |-> EmptyMap,
           reported |-> <<>>]
     ELSE [outcome |-> IF missing = <<>> THEN "returned" ELSE "error",
           args |-> PositionalOnlyValues(meta[POSITIONAL_ONLY], r.cmd_args),
           kwargs |-> BindKeywordOnly(meta[KEYWORD_ONLY], st.cmd_args, st.kwargs),
           reported |-> missing]

\* ------------------------------------------------------------------ state
Init ==
  /\ sig \in Signatures
  /\ argv \in CommandLines(sig)
  /\ pc = "start"
  /\ params_meta = [k \in MetaKeys |-> <<>>]
  /\ arguments = <<>>
  /\ cmd_args = EmptyMap
  /\ positional_or_kw = <<>>
  /\ args = <<>>
  /\ kwargs = EmptyMap
  /\ idx = 0
  /\ reported = <<>>

\* __init__, parsers.py:20-31: classification, then generate_args
Construct ==
  /\ pc = "start"
  /\ params_meta' = Classify(sig)
  /\ arguments' = generate_args(params_meta')
  /\ pc' = "constructed"
  /\ UNCHANGED <<sig, argv, cmd_args, positional_or_kw, args, kwargs, idx, reported>>

\* parsers.py:100
SuperParse ==
  /\ pc = "constructed"
  /\ LET r == SuperParseArgs(arguments, argv)
     IN /\ pc' = IF r.ok THEN "parsed" ELSE "parse_error"
        /\ cmd_args' = r.cmd_args
        /\ positional_or_kw' = r.positional_or_kw
        /\ reported' = r.missing
  /\ UNCHANGED <<sig, argv, params_meta, arguments, args, kwargs, idx>>

\* parsers.py:101-105; cmd_args[param.name] raises KeyError on a missing name
PassPositionalOnly ==
  /\ pc = "parsed"
  /\ LET bucket == params_meta[POSITIONAL_ONLY]
     IN IF \A i \in 1..Len(bucket) : bucket[i].name \in DOMAIN cmd_args
        THEN /\ args' = PositionalOnlyValues(bucket, cmd_args)
             /\ pc' = "pass2"
             /\ idx' = 1
        ELSE /\ pc' = "key_error"
             /\ UNCHANGED <<args, idx>>
  /\ kwargs' = EmptyMap
  /\ UNCHANGED <<sig, argv, params_meta, arguments, cmd_args, positional_or_kw, reported>>

\* parsers.py:106-115, one iteration
PassPositionalOrKeyword ==
  /\ pc = "pass2"
  /\ idx <= Len(params_meta[POSITIONAL_OR_KEYWORD])
  /\ LET st == BindPositionalOrKeyword(
                 [cmd_args |-> cmd_args, positional_or_kw |-> positional_or_kw,
                  kwargs |-> kwargs],
                 params_meta[POSITIONAL_OR_KEYWORD][idx])
     IN /\ cmd_args' = st.cmd_args
        /\ positional_or_kw' = st.positional_or_kw
        /\ kwargs' = st.kwargs
  /\ idx' = idx + 1
  /\ UNCHANGED <<sig, argv, pc, params_meta, arguments, args, reported>>

\* parsers.py:116-118
PassKeywordOnly ==
  /\ pc = "pass2"
  /\ idx > Len(params_meta[POSITIONAL_OR_KEYWORD])
  /\ kwargs' = BindKeywordOnly(params_meta[KEYWORD_ONLY], cmd_args, kwargs)
  /\ pc' = "pass3"
  /\ UNCHANGED <<sig, argv, params_meta, arguments, cmd_args, positional_or_kw,
                 args, idx, reported>>

\* parsers.py:120-124
CheckRequired ==
  /\ pc = "pass3"
  /\ reported' = MissingRequired(params_meta[REQUIRED], cmd_args)
  /\ pc' = IF reported' = <<>> THEN "returned" ELSE "error"
  /\ UNCHANGED <<sig, argv, params_meta, arguments, cmd_args, positional_or_kw,
                 args, kwargs, idx>>

Next ==
  \/ Construct
  \/ SuperParse
  \/ PassPositionalOnly
  \/ PassPositionalOrKeyword
  \/ PassKeywordOnly
  \/ CheckRequired

Spec == Init /\ [][Next]_vars

TypeOK ==
  /\ pc \in {"start", "constructed", "parsed", "parse_error",
             "key_error", "pass2", "pass3", "returned", "error"}
  /\ sig \in Signatures

\* ------------------------------------------------- the input, as supplied
\* What the signature and the command line say, independently of the parser's
\* own state: the parameters of a kind in declaration order, the unnamed
\* tokens left once every non-boolean positional-only parameter took one,
\* and the value a named option carries.
ParamsOfKind(k) == SelectSeq(sig, LAMBDA p : p.kind = k)

NumSlots == Len(SelectSeq(sig, LAMBDA p : p.kind = POSITIONAL_ONLY /\ ~p.bool))

LeftoverTokens == SubSeq(Tokens, NumSlots + 1, argv.npos)

\* the parsed flag values hold no entry for the parameter: a non-boolean
\* option that was not given (a toggle always has one, None when not given)
FlagAbsent(p) == ~p.bool /\ argv.opts[p.name] = "unset"

FlagValue(p) ==
  CASE argv.opts[p.name] = "value" -> Typecast(OptRaw(p.name))
    [] argv.opts[p.name] = "yes" -> "True"
    [] argv.opts[p.name] = "no" -> "False"
    [] OTHER -> "None"

\* how many positional-or-keyword parameters pass 2 has visited
Visited ==
  IF pc = "pass2" THEN idx - 1
  ELSE IF pc \in {"pass3", "returned", "error"}
  THEN Len(ParamsOfKind(POSITIONAL_OR_KEYWORD)) ELSE 0

PassTwoOver ==
  \/ pc \in {"pass3", "returned", "error"}
  \/ pc = "pass2" /\ idx > Len(ParamsOfKind(POSITIONAL_OR_KEYWORD))

\* the number of flag-absent parameters among the first j positional-or-keyword ones
AbsentUpTo(j) ==
  Cardinality({ i \in 1..j : FlagAbsent(ParamsOfKind(POSITIONAL_OR_KEYWORD)[i]) })

Bound(p) ==
  CASE p.kind = POSITIONAL_ONLY ->
         \E i \in 1..Len(args) : ParamsOfKind(POSITIONAL_ONLY)[i] = p
    [] OTHER -> p.name \in DOMAIN kwargs

UnboundRequired == { p \in Range(sig) : ~p.default /\ ~Bound(p) }

Opt(name, kind) == [name |-> name, kind |-> kind, default |-> TRUE, bool |-> FALSE]
Req(name, kind) == [name |-> name, kind |-> kind, default |-> FALSE, bool |-> FALSE]

\* ----------------------------------------------------------------- claims

\* C1: when resolution fails after the three passes, the failure names
\* exactly the set of required parameters that were left unbound, all of
\* them and not only the first in declaration order.
C1_ReportsEveryMissing ==
  pc = "error" => Range(reported) = { p.name : p \in UnboundRequired }

\* C2: a boolean-like positional-or-keyword parameter is bound to true by
\* its explicit-true form, to false by its explicit-false form, and is left
\* out of the keyword mapping when neither was given, in which case
\* resolution fails if it has no default.
C2_ToggleBinding ==
  pc \in {"returned", "error"} =>
    \A p \in Range(ParamsOfKind(POSITIONAL_OR_KEYWORD)) :
      p.bool =>
        CASE argv.opts[p.name] = "yes" ->
               p.name \in DOMAIN kwargs /\ kwargs[p.name] = "True"
          [] argv.opts[p.name] = "no" ->
               p.name \in DOMAIN kwargs /\ kwargs[p.name] = "False"
          [] OTHER ->
               /\ p.name \notin DOMAIN kwargs
               /\ ~p.default => pc = "error"

\* C3: in pass 2 a visited parameter whose flag is in the parsed values is
\* bound to the flag's value and takes no token; the k-th visited parameter
\* whose flag is absent is bound to the k-th leftover token, or stays unbound
\* when there are fewer than k tokens; the catch-all list is what is left of
\* the tokens after those taken. With two optional parameters (a, b), tokens
\* ["5","6"] and no flag, a = "5" and b = "6".
C3_CatchAllInOrder ==
  LET pok == ParamsOfKind(POSITIONAL_OR_KEYWORD)
  IN /\ \A j \in 1..Visited :
          IF ~FlagAbsent(pok[j])
          THEN pok[j].name \in DOMAIN kwargs /\ kwargs[pok[j].name] = FlagValue(pok[j])
          ELSE IF AbsentUpTo(j) <= Len(LeftoverTokens)
          THEN /\ pok[j].name \in DOMAIN kwargs
               /\ kwargs[pok[j].name] = LeftoverTokens[AbsentUpTo(j)]
          ELSE pok[j].name \notin DOMAIN kwargs
     /\ pc \in {"pass2", "pass3", "returned", "error"} =>
          positional_or_kw =
            SubSeq(LeftoverTokens, Min(AbsentUpTo(Visited), Len(LeftoverTokens)) + 1,
                   Len(LeftoverTokens))
     /\ ( /\ PassTwoOver
          /\ sig = <<Opt("a", POSITIONAL_OR_KEYWORD), Opt("b", POSITIONAL_OR_KEYWORD)>>
          /\ argv.npos = 2
          /\ \A n \in {"a", "b"} : argv.opts[n] = "unset" )
        => kwargs = [n \in {"a", "b"} |-> IF n = "a" THEN "5" ELSE "6"]

C3_Witness ==
  /\ pc = "returned"
  /\ sig = <<Opt("a", POSITIONAL_OR_KEYWORD), Opt("b", POSITIONAL_OR_KEYWORD)>>
  /\ argv.npos = 2
  /\ \A n \in {"a", "b"} : argv.opts[n] = "unset"
  /\ kwargs = [n \in {"a", "b"} |-> IF n = "a" THEN "5" ELSE "6"]
  /\ positional_or_kw = <<>>

\* C4: for f(a, /, b=1, *, c) with a supplied and the option of c not given,
\* resolution never returns and fails naming exactly c, however b was given
\* and however many unnamed tokens are left; c is never bound.
SigF == <<Req("a", POSITIONAL_ONLY), Opt("b", POSITIONAL_OR_KEYWORD),
          Req("c", KEYWORD_ONLY)>>

C4_MissingKeywordOnly ==
  (sig = SigF /\ argv.npos >= 1 /\ argv.opts["c"] = "unset") =>
    /\ pc \notin {"returned", "parse_error", "key_error"}
    /\ "c" \notin DOMAIN kwargs
    /\ pc = "error" => reported = <<"c">>

C4_Witness ==
  /\ sig = SigF
  /\ argv.npos = 3
  /\ argv.opts["b"] = "unset" /\ argv.opts["c"] = "unset"
  /\ pc = "error"
  /\ reported = <<"c">>
  /\ kwargs = [n \in {"b"} |-> "6"]

\* C5: when every parameter is positional-only and non-boolean and the
\* command line has exactly one token per parameter, resolution returns, the
\* positional list has one entry per parameter, the i-th being the parsed
\* value of the i-th token, and the keyword mapping is empty.
AllPositionalOnly ==
  \A i \in 1..Len(sig) : sig[i].kind = POSITIONAL_ONLY /\ ~sig[i].bool

C5_PositionalOnlyInOrder ==
  (AllPositionalOnly /\ argv.npos = Len(sig)) =>
    /\ pc \notin {"parse_error", "key_error", "error"}
    /\ pc \in {"pass2", "pass3", "returned"} =>
         /\ args = [i \in 1..Len(sig) |-> Typecast(Tokens[i])]
         /\ kwargs = EmptyMap

C5_Witness ==
  /\ AllPositionalOnly
  /\ Len(sig) = 3
  /\ argv.npos = 3
  /\ pc = "returned"
  /\ args = <<"cast:5", "cast:6", "cast:7">>

\* C6: whenever resolution returns, every parameter without a default is
\* bound: a positional-only one has its slot in the positional list, any
\* other is a key of the keyword mapping.
C6_ReturnedMeansBound ==
  pc = "returned" =>
    /\ Len(args) = Len(ParamsOfKind(POSITIONAL_ONLY))
    /\ \A p \in Range(sig) : ~p.default => Bound(p)

C6_Witness ==
  /\ pc = "returned"
  /\ sig = <<Req("a", POSITIONAL_ONLY), Req("b", POSITIONAL_OR_KEYWORD),
             Req("c", KEYWORD_ONLY)>>
  /\ argv.opts["b"] = "unset"
  /\ Len(args) = 1
  /\ DOMAIN kwargs = {"b", "c"}

\* C7: once classified, every parameter is in the bucket of its own kind
\* exactly once and in no other kind bucket, every bucket holds parameters of
\* the signature in declaration order, and the required bucket holds exactly
\* the parameters without a default.
Occurrences(bucket, p) == Cardinality({ i \in 1..Len(bucket) : bucket[i] = p })

PositionInSig(p) == CHOOSE i \in 1..Len(sig) : sig[i] = p

C7_ClassificationPartitions ==
  pc # "start" =>
    /\ \A p \in Range(sig) : \A k \in Kinds :
         Occurrences(params_meta[k], p) = IF k = p.kind THEN 1 ELSE 0
    /\ \A k \in MetaKeys :
         /\ Range(params_meta[k]) \subseteq Range(sig)
         /\ \A i \in 1..Len(params_meta[k]) : \A j \in 1..Len(params_meta[k]) :
              i < j => PositionInSig(params_meta[k][i]) < PositionInSig(params_meta[k][j])
    /\ Range(params_meta[REQUIRED]) = { p \in Range(sig) : ~p.default }

C7_Witness ==
  /\ pc = "constructed"
  /\ sig = SigF
  /\ params_meta[POSITIONAL_ONLY] = <<sig[1]>>
  /\ params_meta[POSITIONAL_OR_KEYWORD] = <<sig[2]>>
  /\ params_meta[KEYWORD_ONLY] = <<sig[3]>>
  /\ params_meta[REQUIRED] = <<sig[1], sig[3]>>

\* C8: a boolean-like positional-only parameter, whose flag token is not on
\* the command line, has the value false in its slot of the positional list,
\* and resolution does not crash on it.
C8_AbsentPositionalFlagIsFalse ==
  /\ pc # "key_error"
  /\ pc \in {"pass2", "pass3", "returned", "error"} =>
       \A i \in 1..Len(ParamsOfKind(POSITIONAL_ONLY)) :
         ParamsOfKind(POSITIONAL_ONLY)[i].bool =>
           i <= Len(args) /\ args[i] = "False"

\* C9: visiting a boolean-like positional-or-keyword parameter in pass 2
\* leaves the catch-all list unchanged, and such a parameter is never bound
\* to a token. With parameters a, b (boolean-like), c, tokens ["5","6"] and no
\* flag given, a = "5" and c = "6".
SigToggle == <<Opt("a", POSITIONAL_OR_KEYWORD),
               [name |-> "b", kind |-> POSITIONAL_OR_KEYWORD, default |-> TRUE,
                bool |-> TRUE],
               Opt("c", POSITIONAL_OR_KEYWORD)>>

C9_ToggleTakesNoToken ==
  /\ [][ ( /\ pc = "pass2"
           /\ idx <= Len(ParamsOfKind(POSITIONAL_OR_KEYWORD))
           /\ ParamsOfKind(POSITIONAL_OR_KEYWORD)[idx].bool )
         => positional_or_kw' = positional_or_kw ]_vars
  /\ [] ( \A p \in Range(ParamsOfKind(POSITIONAL_OR_KEYWORD)) :
            (p.bool /\ p.name \in DOMAIN kwargs) =>
               kwargs[p.name] \in {"True", "False", "None"} )
  /\ [] ( ( /\ PassTwoOver
            /\ sig = SigToggle
            /\ argv.npos = 2
            /\ \A n \in {"a", "b", "c"} : argv.opts[n] = "unset" )
          => /\ kwargs["a"] = "5"
             /\ kwargs["c"] = "6"
             /\ positional_or_kw = <<>> )

C9_Witness ==
  /\ pc = "returned"
  /\ sig = SigToggle
  /\ argv.npos = 2
  /\ \A n \in {"a", "b", "c"} : argv.opts[n] = "unset"
  /\ kwargs["a"] = "5" /\ kwargs["c"] = "6"
  /\ kwargs["b"] \notin {"5", "6"}

\* C10: once pass 2 is over, the number of tokens taken from the catch-all
\* list is the minimum of its length and the number of flag-absent
\* positional-or-keyword parameters; the tokens beyond that are in neither
\* the positional list nor the keyword mapping; the keys of the keyword
\* mapping are names of positional-or-keyword or keyword-only parameters; and
\* the final outcome is the one of the same command line without the
\* surplus tokens.
Taken ==
  Min(Len(LeftoverTokens), AbsentUpTo(Len(ParamsOfKind(POSITIONAL_OR_KEYWORD))))

C10_SurplusTokensDiscarded ==
  /\ DOMAIN kwargs \subseteq
       { p.name : p \in Range(ParamsOfKind(POSITIONAL_OR_KEYWORD))
                        \cup Range(ParamsOfKind(KEYWORD_ONLY)) }
  /\ CATCH_ALL \notin DOMAIN kwargs
  /\ PassTwoOver =>
       /\ Len(LeftoverTokens) - Len(positional_or_kw) = Taken
       /\ \A j \in (Taken + 1)..Len(LeftoverTokens) :
            /\ LeftoverTokens[j] \notin Range(args)
            /\ \A n \in DOMAIN kwargs : kwargs[n] # LeftoverTokens[j]
  /\ pc \in {"returned", "error"} =>
       LET without == parse_args(sig, [argv EXCEPT !.npos = NumSlots + Taken])
       IN /\ without.outcome = pc
          /\ without.args = args
          /\ without.kwargs = kwargs
          /\ without.reported = reported

C10_Witness ==
  /\ pc = "returned"
  /\ Len(ParamsOfKind(POSITIONAL_OR_KEYWORD)) = 2
  /\ Len(LeftoverTokens) = 3
  /\ Taken = 1
  /\ Len(positional_or_kw) = 2

====
